---- MODULE Spec2Model ----
(***************************************************************************)
(* Model of the /api/analyze route of the research portal                  *)
(* (src/unnamed/part_002): one POST request at a time goes through form    *)
(* validation, extractTextFromFile, the scanned-PDF routing, the           *)
(* credential check of summarizeEarningsCall, the single generateContent   *)
(* call, JSON.parse and the JSON response.                                 *)
(*                                                                         *)
(* Byte strings and JavaScript strings are kept run-length encoded: a      *)
(* sequence of runs <<v, n>> (value v repeated n >= 1 times, adjacent runs *)
(* of different value), so that the real limits of the program (20 MiB,    *)
(* 40,000 characters, 500 characters) are modelled at their real values.   *)
(***************************************************************************)
EXTENDS Integers, Sequences, FiniteSets, TLC

(***************************************************************************)
(* Program constants                                                       *)
(***************************************************************************)
MAX_CHARS == 40000

MAX_FILE_BYTES == 20 * 1024 * 1024

SCANNED_THRESHOLD == 500

(***************************************************************************)
(* Bounds of the model                                                     *)
(***************************************************************************)
MaxRuns == 2

(***************************************************************************)
(* Run-length encoded strings                                              *)
(***************************************************************************)
RECURSIVE Canon(_)
Canon(s) ==
  IF s = <<>> THEN <<>>
  ELSE IF Head(s)[2] = 0 THEN Canon(Tail(s))
  ELSE IF Len(s) = 1 THEN s
  ELSE IF s[2][2] = 0 THEN Canon(<<Head(s)>> \o Tail(Tail(s)))
  ELSE IF s[1][1] = s[2][1]
       THEN Canon(<< <<s[1][1], s[1][2] + s[2][2]>> >> \o Tail(Tail(s)))
       ELSE <<Head(s)>> \o Canon(Tail(s))

RECURSIVE RLen(_)
RLen(s) == IF s = <<>> THEN 0 ELSE Head(s)[2] + RLen(Tail(s))

Repeat(v, n) == IF n = 0 THEN <<>> ELSE << <<v, n>> >>

\* All canonical run sequences of at most n runs over the given values and
\* run lengths.
RunSeqs(vals, lens, n) ==
  UNION { { s \in [1..k -> vals \X lens] :
              \A i \in 1..(k - 1) : s[i][1] # s[i + 1][1] } : k \in 0..n }

(***************************************************************************)
(* String.prototype.slice(0, k) and String.prototype.trim()                *)
(***************************************************************************)
RECURSIVE slice0(_, _)
slice0(s, k) ==
  IF s = <<>> \/ k <= 0 THEN <<>>
  ELSE IF Head(s)[2] >= k THEN << <<Head(s)[1], k>> >>
  ELSE <<Head(s)>> \o slice0(Tail(s), k - Head(s)[2])

\* The code units String.prototype.trim removes (white space and line
\* terminators of the Basic Latin and Latin-1 blocks, and U+FEFF).
IsWhiteSpace(c) == c \in {9, 10, 11, 12, 13, 32, 160, 65279}

RECURSIVE trimStart(_)
trimStart(s) ==
  IF s = <<>> THEN <<>>
  ELSE IF IsWhiteSpace(Head(s)[1]) THEN trimStart(Tail(s))
  ELSE s

RECURSIVE trimEnd(_)
trimEnd(s) ==
  IF s = <<>> THEN <<>>
  ELSE IF IsWhiteSpace(s[Len(s)][1]) THEN trimEnd(SubSeq(s, 1, Len(s) - 1))
  ELSE s

trim(s) == trimEnd(trimStart(s))

(***************************************************************************)
(* Buffer.prototype.toString("utf-8"): one- and two-byte sequences; a lead *)
(* byte without its continuation byte and a stray continuation byte each   *)
(* decode to U+FFFD.                                                       *)
(***************************************************************************)
REPLACEMENT == 65533

IsAscii(b) == b < 128

IsLead2(b) == b >= 194 /\ b <= 223

IsCont(b) == b >= 128 /\ b <= 191

CodePoint2(lead, cont) == (lead % 32) * 64 + (cont % 64)

RECURSIVE Utf8Runs(_)
Utf8Runs(bytes) ==
  IF bytes = <<>> THEN <<>>
  ELSE LET b == Head(bytes)[1]
           n == Head(bytes)[2]
           rest == Tail(bytes)
       IN IF IsAscii(b) THEN << <<b, n>> >> \o Utf8Runs(rest)
          ELSE IF IsLead2(b) /\ rest # <<>> /\ IsCont(Head(rest)[1])
               THEN Repeat(REPLACEMENT, n - 1)
                      \o << <<CodePoint2(b, Head(rest)[1]), 1>> >>
                      \o Repeat(REPLACEMENT, Head(rest)[2] - 1)
                      \o Utf8Runs(Tail(rest))
               ELSE << <<REPLACEMENT, n>> >> \o Utf8Runs(rest)

\* Mutant of toStringUtf8: the bytes are decoded as Latin-1, one character
\* per byte.
toStringLatin1(bytes) == bytes

toStringUtf8(bytes) == Canon(Utf8Runs(bytes))

(***************************************************************************)
(* Buffer.prototype.toString("base64"): the output is a run-length encoded *)
(* sequence of four-character groups, each character a 6-bit value, 64     *)
(* standing for the padding character "=".                                 *)
(***************************************************************************)
PAD == 64

Quad(g) ==
  IF Len(g) = 3
  THEN << g[1] \div 4, (g[1] % 4) * 16 + g[2] \div 16,
          (g[2] % 16) * 4 + g[3] \div 64, g[3] % 64 >>
  ELSE IF Len(g) = 2
  THEN << g[1] \div 4, (g[1] % 4) * 16 + g[2] \div 16, (g[2] % 16) * 4, PAD >>
  ELSE << g[1] \div 4, (g[1] % 4) * 16, PAD, PAD >>

RECURSIVE Base64Groups(_, _)
Base64Groups(bytes, carry) ==
  IF bytes = <<>>
  THEN IF carry = <<>> THEN <<>> ELSE << <<Quad(carry), 1>> >>
  ELSE LET b == Head(bytes)[1]
           n == Head(bytes)[2]
           rest == Tail(bytes)
       IN IF carry = <<>>
          THEN Repeat(Quad(<<b, b, b>>), n \div 3)
                 \o Base64Groups(rest, [i \in 1..(n % 3) |-> b])
          ELSE LET c == Append(carry, b)
                   remaining == Repeat(b, n - 1) \o rest
               IN IF Len(c) = 3
                  THEN << <<Quad(c), 1>> >> \o Base64Groups(remaining, <<>>)
                  ELSE Base64Groups(remaining, c)

toStringBase64(bytes) == Canon(Base64Groups(bytes, <<>>))

(***************************************************************************)
(* JavaScript values                                                       *)
(***************************************************************************)
\* null / undefined, as a form field, an environment variable or a message.
UNDEFINED == "<undefined>"

\* Mutant of Falsy: only an unset variable counts as absent.
FalsyUnsetOnly(v) == v = UNDEFINED

\* !v for a string-or-undefined v.
Falsy(v) == v = UNDEFINED \/ v = ""

\* a ?? b
Coalesce(a, b) == IF a = UNDEFINED THEN b ELSE a

Lower(c) ==
  CASE c = "P" -> "p" [] c = "D" -> "d" [] c = "F" -> "f" [] c = "Q" -> "q"
    [] OTHER -> c

toLowerCase(str) == [i \in DOMAIN str |-> Lower(str[i])]

endsWith(str, suffix) ==
  /\ Len(str) >= Len(suffix)
  /\ SubSeq(str, Len(str) - Len(suffix) + 1, Len(str)) = suffix

(***************************************************************************)
(* JSON values: an object is its map from keys to values.                  *)
(***************************************************************************)
JsonObject(f) == [json |-> "object", fields |-> f]

JsonNull == [json |-> "null", fields |-> [k \in {} |-> ""]]

Restrict(f, keys) == [k \in keys |-> f[k]]

RequiredKeys ==
  {"tone", "confidence", "tone_rationale", "key_positives", "key_concerns",
   "forward_guidance", "capacity_utilization", "growth_initiatives"}

FullSummary ==
  [tone |-> "cautious",
   confidence |-> "medium",
   tone_rationale |-> "guarded on demand",
   key_positives |-> << [summary |-> "orders up", supporting_quote |-> UNDEFINED] >>,
   key_concerns |-> << >>,
   forward_guidance |-> [revenue |-> "flat", margin |-> UNDEFINED,
                         capex |-> UNDEFINED, other |-> UNDEFINED],
   capacity_utilization |-> UNDEFINED,
   growth_initiatives |-> << >>]

\* The key sets of the objects the model is taken to answer with.
KeySubsets ==
  {RequiredKeys, {}, {"tone"}, RequiredKeys \ {"forward_guidance"}}

(***************************************************************************)
(* Inputs of a request and outcomes of the external calls                  *)
(***************************************************************************)
ToolValues == {UNDEFINED, "earnings_summary", "Earnings_Summary"}

MediaTypes == {"application/pdf", "text/plain"}

FileNames ==
  { <<"Q", "1", ".", "P", "D", "F">>, <<"q", "1", ".", "t", "x", "t">>, <<"p", "d", "f">> }

\* 'A', a two-byte lead byte and a continuation byte.
ByteVals == {65, 195, 169}

ByteRunLens == {1, 2, MAX_CHARS, MAX_FILE_BYTES}

NoFile == [kind |-> "null", type |-> "", name |-> <<>>, bytes |-> <<>>]

StringField == [kind |-> "string", type |-> "", name |-> <<>>, bytes |-> <<>>]

Files ==
  [kind : {"File"}, type : MediaTypes, name : FileNames,
   bytes : RunSeqs(ByteVals, ByteRunLens, MaxRuns)]

FileValues == {NoFile, StringField} \cup Files

\* The texts the PDF parser is taken to return ('A' = 65, space = 32,
\* line feed = 10).
ParserTexts ==
  { <<>>,
    << <<65, SCANNED_THRESHOLD - 1>> >>,
    << <<65, SCANNED_THRESHOLD>> >>,
    << <<32, 1>>, <<65, SCANNED_THRESHOLD - 1>> >>,
    << <<10, MAX_CHARS>> >>,
    << <<65, MAX_CHARS>> >>,
    << <<65, MAX_CHARS>>, <<10, 1>> >>,
    << <<32, 1>>, <<65, MAX_CHARS>> >> }

\* response.text of generateContent: absent, empty, not JSON, or JSON text.
ResponseTexts ==
  { [raw |-> "undefined", value |-> JsonNull],
    [raw |-> "empty", value |-> JsonNull],
    [raw |-> "malformed", value |-> JsonNull],
    [raw |-> "json", value |-> JsonNull] }
  \cup { [raw |-> "json", value |-> JsonObject(Restrict(FullSummary, K))] :
           K \in KeySubsets }

\* generateContent rejects with an Error, rejects with a value that has no
\* message, or resolves with a response.
ModelOutcomes ==
  { [kind |-> "throws", message |-> "fetch failed", text |-> [raw |-> "undefined", value |-> JsonNull]],
    [kind |-> "throws", message |-> UNDEFINED, text |-> [raw |-> "undefined", value |-> JsonNull]] }
  \cup { [kind |-> "resolves", message |-> UNDEFINED, text |-> t] : t \in ResponseTexts }

\* JSON.parse
JSONparse(t) ==
  IF t.raw = "json" THEN [ok |-> TRUE, value |-> t.value]
  ELSE [ok |-> FALSE, value |-> JsonNull]

(***************************************************************************)
(* Messages of the route                                                   *)
(***************************************************************************)
MSG_UNSUPPORTED_TOOL == "Unsupported tool. Only 'earnings_summary' is implemented."

MSG_NO_FILE == "No file provided. Please attach a document."

MSG_TOO_LARGE ==
  "File is too large for this demo environment. Please keep files under ~20 MB."

MSG_NO_KEY == "GEMINI_API_KEY is not configured. Please set it in your environment."

MSG_NO_TEXT == "No text returned from Gemini model."

MSG_SYNTAX == "Unexpected token in JSON"

MSG_FORM == "Failed to parse body as FormData."

MSG_UNEXPECTED == "Unexpected error while processing the document. Please try again."

\* NextResponse.json({ error }, { status })
ErrorResponse(message, status) ==
  [status |-> status, body |-> JsonObject([error |-> message])]

\* NextResponse.json(summary), status 200
JsonResponse(value) == [status |-> 200, body |-> value]

\* The catch block of POST.
Caught(message) == ErrorResponse(Coalesce(message, MSG_UNEXPECTED), 500)

NoResponse == [status |-> 0, body |-> JsonNull]

(***************************************************************************)
(* State                                                                   *)
(***************************************************************************)
VARIABLES
  GEMINI_API_KEY,  \* process.env.GEMINI_API_KEY
  pc,              \* position of the request handler
  formOk,          \* whether req.formData() resolved
  tool,            \* formData.get("tool")
  file,            \* formData.get("file")
  buffer,          \* extractTextFromFile: Buffer.from(arrayBuffer)
  text,            \* extractTextFromFile: the extracted text
  path,            \* the branch POST took: "binary" (isScanned) or "text"
  apiKey,          \* summarizeEarningsCall: the credential as read
  contents,        \* the contents of the generateContent request
  pdfParseCalls,   \* PDF parser invocations of this request
  pdfParseError,   \* extractTextFromFile: whether its catch block ran
  utf8Decodes,     \* buffer.toString("utf-8") calls of this request
  modelCalls,      \* generateContent calls of this request
  outcome,         \* how the generateContent call settled
  responses        \* the responses returned for this request

\* The state of the page (src/app/page.tsx).
VARIABLES
  pageFile,        \* HomePage: the state `file`, the selected file or null
  apiState,        \* HomePage: the state `apiState`
  requests,        \* the /api/analyze requests of handleSubmit calls in progress
  event            \* the last thing that happened on the page

serverVars ==
  << GEMINI_API_KEY, pc, formOk, tool, file, buffer, text, path, apiKey,
     contents, pdfParseCalls, pdfParseError, utf8Decodes, modelCalls, outcome,
     responses >>

clientVars == << pageFile, apiState, requests, event >>

vars == << serverVars, clientVars >>

(***************************************************************************)
(* Values of the page                                                      *)
(***************************************************************************)
MAX_MB == 4

\* The number of requests of the page that may be in progress at once.
MaxInFlight == 2

\* file === null
NoSelection == [selected |-> FALSE, size |-> 0]

\* The sizes, in bytes, of the files the user may select.
ClientFileSizes == {1024, MAX_MB * 1024 * 1024, MAX_MB * 1024 * 1024 + 1}

ClientFiles == [selected : {TRUE}, size : ClientFileSizes]

MSG_ATTACH == "Please attach an earnings call transcript or commentary file."

MSG_CLIENT_TOO_LARGE ==
  "File is too large (4 MB). Please upload a file smaller than 4 MB for this demo."

MSG_REQUEST_FAILED == "Request failed"

MSG_RESPONSE_TEXT == "<the text of the response body>"

MSG_FETCH_FAILED == "Failed to fetch"

MSG_BODY_FAILED == "Failed to read the response body"

\* The values of ApiState.
ApiIdle == [status |-> "idle", message |-> "", data |-> ""]

ApiSubmitting == [status |-> "submitting", message |-> "", data |-> ""]

ApiSuccess == [status |-> "success", message |-> "", data |-> "<parsed body>"]

ApiError(message) == [status |-> "error", message |-> message, data |-> ""]

\* A request of handleSubmit: where it stands (free: none; pending: fetch
\* not settled; rejected: fetch rejected; reading: response.text() or
\* response.json() not settled; read: it settled), response.ok, and what the
\* body is: JSON, other text, empty, or unreadable.
FreeRequest == [stage |-> "free", ok |-> FALSE, body |-> "none"]

BodyKinds == {"json", "text", "empty", "fails"}

NoOutcome ==
  [kind |-> "none", message |-> UNDEFINED,
   text |-> [raw |-> "undefined", value |-> JsonNull]]

Init ==
  /\ GEMINI_API_KEY \in {UNDEFINED, "", "sk-test"}
  /\ pc = "idle"
  /\ formOk = TRUE
  /\ tool = UNDEFINED
  /\ file = NoFile
  /\ buffer = <<>>
  /\ text = <<>>
  /\ path = "none"
  /\ apiKey = UNDEFINED
  /\ contents = <<>>
  /\ pdfParseCalls = 0
  /\ pdfParseError = FALSE
  /\ utf8Decodes = 0
  /\ modelCalls = 0
  /\ outcome = NoOutcome
  /\ responses = <<>>
  /\ pageFile = NoSelection
  /\ apiState = ApiIdle
  /\ requests = [r \in 1..MaxInFlight |-> FreeRequest]
  /\ event = "load"

(***************************************************************************)
(* Decisions of the route                                                  *)
(***************************************************************************)
\* Mutant of TooLarge: the comparison includes the cap itself.
TooLargeInclusive(bytes) == RLen(bytes) >= MAX_FILE_BYTES

\* arrayBuffer.byteLength > MAX_FILE_BYTES
TooLarge(bytes) == RLen(bytes) > MAX_FILE_BYTES

\* file.type === "application/pdf" || file.name.toLowerCase().endsWith(".pdf")
isPdf(f) ==
  \/ f.type = "application/pdf"
  \/ endsWith(toLowerCase(f.name), <<".", "p", "d", "f">>)

\* Mutant of isScanned: the length is taken without trimming.
isScannedUntrimmed(f, t) ==
  (f.type = "application/pdf" \/ endsWith(toLowerCase(f.name), <<".", "p", "d", "f">>))
    /\ RLen(t) < SCANNED_THRESHOLD

\* isPdf && (!text || text.trim().length < 500)
isScanned(f, t) ==
  isPdf(f) /\ (t = <<>> \/ RLen(trim(t)) < SCANNED_THRESHOLD)

\* Mutant of trimmedText: the budget is applied one character short.
trimmedTextShort(t) == slice0(t, MAX_CHARS - 1)

\* text.slice(0, MAX_CHARS)
trimmedText(t) == slice0(t, MAX_CHARS)

\* The prompt of the text branch: the template around the trimmed text.
userPrompt(t) ==
  << [lit |-> "Transcript text (may be truncated for length):"],
     [txt |-> trimmedText(t)],
     [lit |-> "end of transcript"] >>

\* The prompt of the scanned branch.
scannedPrompt ==
  << [lit |-> "Please analyze the attached PDF document. It appears to be a scanned transcript."] >>

\* Mutant of imgData: the attachment is cut to the character budget.
imgDataTruncated(buf) ==
  [inlineData |-> [mimeType |-> "application/pdf",
                   data |-> toStringBase64(slice0(buf, MAX_CHARS))]]

\* Mutant of imgData: the attachment is sent as an untyped byte stream.
imgDataOctetStream(buf) ==
  [inlineData |-> [mimeType |-> "application/octet-stream",
                   data |-> toStringBase64(buf)]]

\* The part that carries the file on the scanned branch.
imgData(buf) ==
  [inlineData |-> [mimeType |-> "application/pdf", data |-> toStringBase64(buf)]]

\* The contents summarizeEarningsCall builds: the system prompt and the
\* prompt context in one text part, then the attachment when there is one.
textPart(promptContext) ==
  [role |-> "user", text |-> << [lit |-> "SYSTEM_PROMPT"] >> \o promptContext]

\* Mutant of validationError: the file field is checked before the tool.
validationErrorFileFirst(t, f) ==
  IF f.kind # "File" THEN ErrorResponse(MSG_NO_FILE, 400)
  ELSE IF t # "earnings_summary" THEN ErrorResponse(MSG_UNSUPPORTED_TOOL, 400)
  ELSE NoResponse

\* The two checks at the head of POST: the response they return, or
\* NoResponse when the request passes both.
validationError(t, f) ==
  IF t # "earnings_summary" THEN ErrorResponse(MSG_UNSUPPORTED_TOOL, 400)
  ELSE IF f.kind # "File" THEN ErrorResponse(MSG_NO_FILE, 400)
  ELSE NoResponse

(***************************************************************************)
(* Actions                                                                 *)
(***************************************************************************)
\* The environment of the process changes; a change after the request has
\* read the credential has no effect on it and is left out.
SetEnv ==
  /\ pc \in {"idle", "extract", "route"}
  /\ \E v \in {UNDEFINED, "", "sk-test"} :
       /\ v # GEMINI_API_KEY
       /\ GEMINI_API_KEY' = v
  /\ UNCHANGED << pc, formOk, tool, file, buffer, text, path, apiKey, contents,
                  pdfParseCalls, pdfParseError, utf8Decodes, modelCalls, outcome,
                  responses >>
  /\ UNCHANGED clientVars

\* POST, from its entry to the first await of extractTextFromFile: the form
\* is read and the two fields are validated.
POST ==
  /\ pc = "idle"
  /\ \E ok \in BOOLEAN, t \in ToolValues, f \in FileValues :
       /\ ok = FALSE => (t = UNDEFINED /\ f = NoFile)
       /\ formOk' = ok
       /\ tool' = t
       /\ file' = f
       /\ IF ~ok
          THEN /\ responses' = << Caught(MSG_FORM) >>
               /\ pc' = "done"
          ELSE IF validationError(t, f) # NoResponse
          THEN /\ responses' = << validationError(t, f) >>
               /\ pc' = "done"
          ELSE /\ responses' = <<>>
               /\ pc' = "extract"
  /\ buffer' = <<>>
  /\ text' = <<>>
  /\ path' = "none"
  /\ apiKey' = UNDEFINED
  /\ contents' = <<>>
  /\ pdfParseCalls' = 0
  /\ pdfParseError' = FALSE
  /\ utf8Decodes' = 0
  /\ modelCalls' = 0
  /\ outcome' = NoOutcome
  /\ UNCHANGED GEMINI_API_KEY
  /\ UNCHANGED clientVars

\* Mutant of extractTextFromFile: a failure of the PDF parser is not caught
\* and ends the request.
extractTextFromFileAborting ==
  /\ pc = "extract"
  /\ IF TooLarge(file.bytes)
     THEN /\ responses' = Append(responses, Caught(MSG_TOO_LARGE))
          /\ pc' = "done"
          /\ UNCHANGED << buffer, text, pdfParseCalls, pdfParseError, utf8Decodes >>
     ELSE /\ buffer' = file.bytes
          /\ IF isPdf(file)
             THEN /\ pdfParseCalls' = pdfParseCalls + 1
                  /\ \E parsed \in [ok : {TRUE}, text : ParserTexts]
                                     \cup {[ok |-> FALSE, text |-> <<>>]} :
                       /\ text' = IF parsed.ok THEN parsed.text ELSE <<>>
                       /\ pdfParseError' = ~parsed.ok
                       /\ pc' = IF parsed.ok THEN "route" ELSE "done"
                       /\ responses' = IF parsed.ok THEN responses
                                       ELSE Append(responses, Caught(UNDEFINED))
                  /\ UNCHANGED utf8Decodes
             ELSE /\ utf8Decodes' = utf8Decodes + 1
                  /\ text' = toStringUtf8(file.bytes)
                  /\ pc' = "route"
                  /\ UNCHANGED << pdfParseCalls, pdfParseError, responses >>
  /\ UNCHANGED << GEMINI_API_KEY, formOk, tool, file, path, apiKey, contents,
                  modelCalls, outcome >>
  /\ UNCHANGED clientVars

\* extractTextFromFile: the size check, then the PDF parser (whose failure
\* leaves the text empty) or the UTF-8 decoding.
extractTextFromFile ==
  /\ pc = "extract"
  /\ IF TooLarge(file.bytes)
     THEN /\ responses' = Append(responses, Caught(MSG_TOO_LARGE))
          /\ pc' = "done"
          /\ UNCHANGED << buffer, text, pdfParseCalls, pdfParseError, utf8Decodes >>
     ELSE /\ buffer' = file.bytes
          /\ IF isPdf(file)
             THEN /\ pdfParseCalls' = pdfParseCalls + 1
                  /\ \E parsed \in [ok : {TRUE}, text : ParserTexts]
                                     \cup {[ok |-> FALSE, text |-> <<>>]} :
                       /\ text' = IF parsed.ok THEN parsed.text ELSE <<>>
                       /\ pdfParseError' = ~parsed.ok
                  /\ UNCHANGED utf8Decodes
             ELSE /\ utf8Decodes' = utf8Decodes + 1
                  /\ text' = toStringUtf8(file.bytes)
                  /\ UNCHANGED << pdfParseCalls, pdfParseError >>
          /\ pc' = "route"
          /\ UNCHANGED responses
  /\ UNCHANGED << GEMINI_API_KEY, formOk, tool, file, path, apiKey, contents,
                  modelCalls, outcome >>
  /\ UNCHANGED clientVars

\* POST after extraction, into summarizeEarningsCall up to its await of
\* generateContent: the branch is chosen, the credential is read and the
\* request is issued.
summarizeEarningsCall ==
  /\ pc = "route"
  /\ path' = IF isScanned(file, text) THEN "binary" ELSE "text"
  /\ apiKey' = GEMINI_API_KEY
  /\ IF Falsy(GEMINI_API_KEY)
     THEN /\ responses' = Append(responses, Caught(MSG_NO_KEY))
          /\ pc' = "done"
          /\ UNCHANGED << contents, modelCalls >>
     ELSE /\ contents' =
               IF isScanned(file, text)
               THEN << textPart(scannedPrompt), [role |-> "user", part |-> imgData(buffer)] >>
               ELSE << textPart(userPrompt(text)) >>
          /\ modelCalls' = modelCalls + 1
          /\ pc' = "awaitModel"
          /\ UNCHANGED responses
  /\ UNCHANGED << GEMINI_API_KEY, formOk, tool, file, buffer, text,
                  pdfParseCalls, pdfParseError, utf8Decodes, outcome >>
  /\ UNCHANGED clientVars

\* Mutant of settledResponse: a text that does not parse is answered with an
\* empty summary.
settledResponseLenient(o) ==
  IF o.kind = "throws" THEN Caught(o.message)
  ELSE IF o.text.raw \in {"undefined", "empty"} THEN Caught(MSG_NO_TEXT)
  ELSE IF ~JSONparse(o.text).ok THEN JsonResponse(JsonObject([k \in {} |-> ""]))
  ELSE JsonResponse(JSONparse(o.text).value)

\* What POST returns once generateContent has settled with outcome o: the
\* caught error of the call, of the missing text or of JSON.parse, or the
\* parsed value.
settledResponse(o) ==
  IF o.kind = "throws" THEN Caught(o.message)
  ELSE IF o.text.raw \in {"undefined", "empty"} THEN Caught(MSG_NO_TEXT)
  ELSE IF ~JSONparse(o.text).ok THEN Caught(MSG_SYNTAX)
  ELSE JsonResponse(JSONparse(o.text).value)

\* Mutant of generateContentSettles: a call that throws is issued again.
generateContentSettlesRetry ==
  /\ pc = "awaitModel"
  /\ \E o \in ModelOutcomes :
       /\ outcome' = o
       /\ IF o.kind = "throws" /\ modelCalls < 3
          THEN /\ pc' = "route"
               /\ UNCHANGED responses
          ELSE /\ pc' = "done"
               /\ responses' = Append(responses, settledResponse(o))
  /\ UNCHANGED << GEMINI_API_KEY, formOk, tool, file, buffer, text, path,
                  apiKey, contents, pdfParseCalls, pdfParseError, utf8Decodes,
                  modelCalls >>
  /\ UNCHANGED clientVars

\* The generateContent call settles: summarizeEarningsCall reads the text,
\* parses it, and POST returns the parsed value or the caught error.
generateContentSettles ==
  /\ pc = "awaitModel"
  /\ \E o \in ModelOutcomes :
       /\ outcome' = o
       /\ responses' = Append(responses, settledResponse(o))
  /\ pc' = "done"
  /\ UNCHANGED << GEMINI_API_KEY, formOk, tool, file, buffer, text, path,
                  apiKey, contents, pdfParseCalls, pdfParseError, utf8Decodes,
                  modelCalls >>
  /\ UNCHANGED clientVars

\* POST has returned its response: the request and everything it owned are
\* gone.
requestEnds ==
  /\ pc = "done"
  /\ pc' = "idle"
  /\ formOk' = TRUE
  /\ tool' = UNDEFINED
  /\ file' = NoFile
  /\ buffer' = <<>>
  /\ text' = <<>>
  /\ path' = "none"
  /\ apiKey' = UNDEFINED
  /\ contents' = <<>>
  /\ pdfParseCalls' = 0
  /\ pdfParseError' = FALSE
  /\ utf8Decodes' = 0
  /\ modelCalls' = 0
  /\ outcome' = NoOutcome
  /\ responses' = <<>>
  /\ UNCHANGED GEMINI_API_KEY
  /\ UNCHANGED clientVars

Next ==
  \/ SetEnv
  \/ requestEnds
  \/ POST
  \/ extractTextFromFile
  \/ summarizeEarningsCall
  \/ generateContentSettles

Spec == Init /\ [][Next]_vars

(***************************************************************************)
(* The page: decisions                                                     *)
(***************************************************************************)
\* Mutant of tooLargeForDemo: the comparison includes the limit itself.
tooLargeForDemoInclusive(size) == size >= MAX_MB * 1024 * 1024

\* file.size > MAX_MB * 1024 * 1024
tooLargeForDemo(size) == size > MAX_MB * 1024 * 1024

\* Mutant of settledState: response.ok is not looked at.
settledStateIgnoringOk(req) ==
  IF req.body = "json" THEN ApiSuccess
  ELSE IF req.body = "fails" THEN ApiError(MSG_BODY_FAILED)
  ELSE ApiError(MSG_SYNTAX)

\* The state handleSubmit sets once the body of the response has been read
\* or has failed to be read.
settledState(req) ==
  IF ~req.ok
  THEN IF req.body = "fails" THEN ApiError(MSG_BODY_FAILED)
       ELSE IF req.body = "empty" THEN ApiError(MSG_REQUEST_FAILED)
       ELSE ApiError(MSG_RESPONSE_TEXT)
  ELSE IF req.body = "json" THEN ApiSuccess
  ELSE IF req.body = "fails" THEN ApiError(MSG_BODY_FAILED)
  ELSE ApiError(MSG_SYNTAX)

FreeSlots == {r \in 1..MaxInFlight : requests[r].stage = "free"}

(***************************************************************************)
(* The page: actions                                                       *)
(***************************************************************************)
\* onChange of the file input.
onChange ==
  /\ \E nextFile \in ClientFiles \cup {NoSelection} : pageFile' = nextFile
  /\ apiState' = IF apiState.status \in {"success", "error"} THEN ApiIdle
                  ELSE apiState
  /\ event' = "select"
  /\ UNCHANGED << requests, serverVars >>

\* onClick of the Reset button.
Reset ==
  /\ pageFile' = NoSelection
  /\ apiState' = ApiIdle
  /\ event' = "reset"
  /\ UNCHANGED << requests, serverVars >>

\* handleSubmit up to its await of fetch; the submit button is disabled
\* while the state is submitting.
handleSubmit ==
  /\ apiState.status # "submitting"
  /\ IF ~pageFile.selected
     THEN /\ apiState' = ApiError(MSG_ATTACH)
          /\ UNCHANGED requests
     ELSE IF tooLargeForDemo(pageFile.size)
     THEN /\ apiState' = ApiError(MSG_CLIENT_TOO_LARGE)
          /\ UNCHANGED requests
     ELSE /\ FreeSlots # {}
          /\ LET r == CHOOSE x \in FreeSlots : \A y \in FreeSlots : x <= y
             IN requests' = [requests EXCEPT ![r] =
                               [stage |-> "pending", ok |-> FALSE, body |-> "none"]]
          /\ apiState' = ApiSubmitting
  /\ event' = "submit"
  /\ UNCHANGED << pageFile, serverVars >>

\* The fetch of request r settles: it rejects, or it resolves with a
\* response, whose body handleSubmit then starts to read.
fetchSettles(r) ==
  /\ requests[r].stage = "pending"
  /\ \/ requests' = [requests EXCEPT ![r].stage = "rejected"]
     \/ \E ok \in BOOLEAN :
          requests' = [requests EXCEPT ![r].stage = "reading", ![r].ok = ok]
  /\ event' = "network"
  /\ UNCHANGED << pageFile, apiState, serverVars >>

\* The catch block of handleSubmit after a rejected fetch.
fetchRejected(r) ==
  /\ requests[r].stage = "rejected"
  /\ apiState' = ApiError(MSG_FETCH_FAILED)
  /\ requests' = [requests EXCEPT ![r] = FreeRequest]
  /\ event' = "response"
  /\ UNCHANGED << pageFile, serverVars >>

\* response.text() or response.json() of request r settles.
bodySettles(r) ==
  /\ requests[r].stage = "reading"
  /\ \E b \in BodyKinds :
       requests' = [requests EXCEPT ![r].stage = "read", ![r].body = b]
  /\ event' = "network"
  /\ UNCHANGED << pageFile, apiState, serverVars >>

\* handleSubmit after the body: the throw for a response that is not ok,
\* the success state, or the catch block.
responseHandled(r) ==
  /\ requests[r].stage = "read"
  /\ apiState' = settledState(requests[r])
  /\ requests' = [requests EXCEPT ![r] = FreeRequest]
  /\ event' = "response"
  /\ UNCHANGED << pageFile, serverVars >>

ClientNext ==
  \/ onChange
  \/ Reset
  \/ handleSubmit
  \/ \E r \in 1..MaxInFlight : fetchSettles(r)
  \/ \E r \in 1..MaxInFlight : fetchRejected(r)
  \/ \E r \in 1..MaxInFlight : bodySettles(r)
  \/ \E r \in 1..MaxInFlight : responseHandled(r)

ClientInit == Init /\ GEMINI_API_KEY = UNDEFINED

ClientSpec == ClientInit /\ [][ClientNext]_vars

\* The continuations of handleSubmit run once the promise they await has
\* settled.
ClientLiveSpec ==
  /\ ClientSpec
  /\ \A r \in 1..MaxInFlight :
       WF_vars(fetchRejected(r)) /\ WF_vars(responseHandled(r))

(***************************************************************************)
(* Vocabulary of the properties                                            *)
(***************************************************************************)
\* The request passed the form parsing and the two field checks.
Validated == formOk /\ tool = "earnings_summary" /\ file.kind = "File"

\* The handler is past the choice of its branch.
Routed == pc \in {"awaitModel", "done"} /\ path # "none"

ByteLength == RLen(file.bytes)

Oversize == ByteLength > 20 * 1024 * 1024

PdfByType == file.type = "application/pdf"

PdfByName == file.name = <<"Q", "1", ".", "P", "D", "F">>

RECURSIVE IsPrefix(_, _)
IsPrefix(p, t) ==
  \/ p = <<>>
  \/ /\ t # <<>>
     /\ Head(p)[1] = Head(t)[1]
     /\ \/ Head(p)[2] = Head(t)[2] /\ IsPrefix(Tail(p), Tail(t))
        \/ Head(p)[2] < Head(t)[2] /\ Len(p) = 1

\* The UTF-8 encoding of a string of characters below U+0800.
RECURSIVE Utf8Encode(_)
Utf8Encode(t) ==
  IF t = <<>> THEN <<>>
  ELSE LET c == Head(t)[1]
           n == Head(t)[2]
       IN IF c < 128 THEN << <<c, n>> >> \o Utf8Encode(Tail(t))
          ELSE << <<192 + (c \div 64), 1>>, <<128 + (c % 64), 1>> >>
                 \o Utf8Encode(Repeat(c, n - 1) \o Tail(t))

HasReplacement(t) == \E i \in DOMAIN t : t[i][1] = 65533

\* The bytes a base64 text stands for.
Unquad(q) ==
  IF q[3] = 64 THEN << q[1] * 4 + q[2] \div 16 >>
  ELSE IF q[4] = 64
  THEN << q[1] * 4 + q[2] \div 16, (q[2] % 16) * 16 + q[3] \div 4 >>
  ELSE << q[1] * 4 + q[2] \div 16, (q[2] % 16) * 16 + q[3] \div 4,
          (q[3] % 4) * 64 + q[4] >>

RECURSIVE Base64DecodeRuns(_)
Base64DecodeRuns(groups) ==
  IF groups = <<>> THEN <<>>
  ELSE LET bs == Unquad(Head(groups)[1])
           k == Head(groups)[2]
       IN IF \A i \in DOMAIN bs : bs[i] = bs[1]
          THEN << <<bs[1], Len(bs) * k>> >> \o Base64DecodeRuns(Tail(groups))
          ELSE [i \in DOMAIN bs |-> <<bs[i], 1>>]
                 \o Base64DecodeRuns(Repeat(Head(groups)[1], k - 1) \o Tail(groups))

Base64Decode(groups) == Canon(Base64DecodeRuns(groups))

ErrorBody(message) == [json |-> "object", fields |-> [error |-> message]]

DefaultOf(k) ==
  CASE k \in {"tone", "confidence"} -> "unknown"
    [] k \in {"tone_rationale", "capacity_utilization"} -> UNDEFINED
    [] k \in {"key_positives", "key_concerns", "growth_initiatives"} -> <<>>
    [] k = "forward_guidance" ->
         [revenue |-> UNDEFINED, margin |-> UNDEFINED,
          capex |-> UNDEFINED, other |-> UNDEFINED]

C2_SuccessBodyHasEveryRequiredKey ==
  \A i \in DOMAIN responses :
    responses[i].status = 200 =>
      /\ responses[i].body.json = "object"
      /\ \A k \in RequiredKeys :
           /\ k \in DOMAIN responses[i].body.fields
           /\ responses[i].body.fields[k] =
                IF k \in DOMAIN outcome.text.value.fields
                THEN outcome.text.value.fields[k]
                ELSE DefaultOf(k)

(***************************************************************************)
(* C3: an upload that is not a PDF (its type is not application/pdf and its *)
(* name does not end in .pdf in any letter case) takes the text branch,     *)
(* never the binary one, however short its text, and its text is the UTF-8  *)
(* decoding of its bytes.                                                   *)
(***************************************************************************)
C3_NonPdfTakesTextPath ==
  (pc # "idle" /\ Validated /\ ~PdfByType /\ ~PdfByName) =>
    /\ path # "binary"
    /\ pdfParseCalls = 0
    /\ (pc \in {"route", "awaitModel"} \/ (pc = "done" /\ ~Oversize)) =>
         /\ utf8Decodes = 1
         /\ text = toStringUtf8(file.bytes)
         /\ RLen(text) <= ByteLength
         /\ ~HasReplacement(text) => Utf8Encode(text) = file.bytes
    /\ (pc \in {"awaitModel", "done"} /\ ~Oversize) => path = "text"
    /\ pc = "awaitModel" =>
         /\ Len(contents) = 1
         /\ contents[1].text[3] = [txt |-> slice0(text, 40000)]

C3_Witness ==
  /\ pc = "awaitModel" /\ Validated /\ ~PdfByType /\ ~PdfByName
  /\ file.bytes = << <<195, 1>>, <<169, 1>> >>
  /\ text = << <<233, 1>> >>
  /\ path = "text"

(***************************************************************************)
(* C4: a PDF upload whose extracted text has fewer than 500 characters,     *)
(* the empty text included, takes the binary branch: the model call carries *)
(* the uploaded bytes, base64 encoded, as an attachment, and the prompt     *)
(* does not contain the extracted text.                                     *)
(***************************************************************************)
C4_ShortPdfTakesBinaryPath ==
  (Validated /\ (PdfByType \/ PdfByName) /\ Routed /\ RLen(text) < 500) =>
    /\ path = "binary"
    /\ pdfParseCalls = 1 /\ utf8Decodes = 0
    /\ modelCalls = 1 =>
         /\ Len(contents) = 2
         /\ Base64Decode(contents[2].part.inlineData.data) = file.bytes
         /\ \A j \in DOMAIN contents[1].text : "txt" \notin DOMAIN contents[1].text[j]

C4_Witness ==
  /\ Validated /\ PdfByName /\ ~PdfByType /\ pc = "awaitModel"
  /\ text = << <<65, 499>> >>
  /\ path = "binary"
  /\ ByteLength = 40001
  /\ Base64Decode(contents[2].part.inlineData.data) = file.bytes

SentTranscript == contents[1].text[3].txt

C6_TranscriptIsBoundedPrefix ==
  (pc \in {"awaitModel", "done"} /\ path = "text" /\ modelCalls = 1) =>
    /\ Len(contents) = 1
    /\ Len(contents[1].text) = 4
    /\ IsPrefix(SentTranscript, text)
    /\ RLen(SentTranscript) = IF RLen(text) <= 40000 THEN RLen(text) ELSE 40000
    /\ RLen(text) <= 40000 => SentTranscript = text
    /\ trimmedText(SentTranscript) = SentTranscript

C6_Witness ==
  /\ pc = "awaitModel" /\ path = "text"
  /\ text = << <<65, 40000>>, <<65533, 1>> >>
  /\ SentTranscript = << <<65, 40000>> >>

(***************************************************************************)
(* C7: a request makes at most one model call; a finished request has made  *)
(* exactly one if and only if it passed the field checks, the size cap and  *)
(* the credential check, also when that call failed.                        *)
(***************************************************************************)
C7_AtMostOneModelCall ==
  /\ modelCalls <= 1
  /\ pc \in {"idle", "extract", "route"} => modelCalls = 0
  /\ pc = "awaitModel" => modelCalls = 1
  /\ pc = "done" =>
       (modelCalls = 1 <=>
          (Validated /\ ~Oversize /\ apiKey \notin {UNDEFINED, ""}))

C7_Witness ==
  /\ pc = "done" /\ modelCalls = 1
  /\ outcome.kind = "throws"
  /\ path = "binary"

(***************************************************************************)
(* C8: when GEMINI_API_KEY is absent (unset or empty) as the request reads  *)
(* it, the request ends with the "not configured" error under status 500    *)
(* and no model call is made; the value used is the one of the environment  *)
(* at that read, and no other request gets this error.                      *)
(***************************************************************************)
C8_MissingKeyEndsRequest ==
  /\ (path # "none" /\ apiKey \in {UNDEFINED, ""}) =>
       /\ pc = "done"
       /\ responses = << [status |-> 500, body |-> ErrorBody(MSG_NO_KEY)] >>
       /\ modelCalls = 0
       /\ contents = <<>>
  /\ path # "none" => apiKey = GEMINI_API_KEY
  /\ (\E i \in DOMAIN responses : responses[i].body = ErrorBody(MSG_NO_KEY)) =>
       (path # "none" /\ apiKey \in {UNDEFINED, ""})

C8_Witness ==
  /\ pc = "done" /\ Validated /\ path = "text"
  /\ apiKey = ""
  /\ responses = << [status |-> 500, body |-> ErrorBody(MSG_NO_KEY)] >>

(***************************************************************************)
(* C9: when the model call throws, returns no text or returns text that is  *)
(* not JSON, the request ends with one response whose body is an object     *)
(* with the single field error, a string; every finished request has        *)
(* returned exactly one response, which is either that error object or the  *)
(* parsed value under status 200, never both.                               *)
(***************************************************************************)
Messages ==
  {MSG_UNSUPPORTED_TOOL, MSG_NO_FILE, MSG_TOO_LARGE, MSG_NO_KEY, MSG_NO_TEXT,
   MSG_SYNTAX, MSG_FORM, MSG_UNEXPECTED, "fetch failed"}

IsErrorResponse(r) ==
  /\ r.status # 200
  /\ r.body.json = "object"
  /\ DOMAIN r.body.fields = {"error"}
  /\ r.body.fields["error"] \in Messages

ModelFailed ==
  \/ outcome.kind = "throws"
  \/ outcome.kind = "resolves" /\ outcome.text.raw \in {"undefined", "empty", "malformed"}

C9_ModelFailureYieldsOnlyError ==
  /\ Len(responses) <= 1
  /\ pc = "done" <=> Len(responses) = 1
  /\ ModelFailed =>
       /\ pc = "done"
       /\ IsErrorResponse(responses[1])
       /\ responses[1].status = 500
  /\ \A i \in DOMAIN responses :
       \/ IsErrorResponse(responses[i])
       \/ /\ responses[i].status = 200
          /\ outcome.kind = "resolves" /\ outcome.text.raw = "json"
          /\ responses[i].body = outcome.text.value

C9_Witness ==
  /\ pc = "done"
  /\ outcome.kind = "resolves" /\ outcome.text.raw = "malformed"
  /\ responses = << [status |-> 500, body |-> ErrorBody(MSG_SYNTAX)] >>

(***************************************************************************)
(* C10: a request whose tool field is not exactly "earnings_summary", or    *)
(* whose file field is not a file, ends with status 400 before any          *)
(* extraction or model call; the tool is checked first, so a request with   *)
(* both defects gets the unsupported-tool error.                            *)
(***************************************************************************)
C10_InvalidFieldsRejectedFirst ==
  (pc # "idle" /\ formOk /\ (tool # "earnings_summary" \/ file.kind # "File")) =>
    /\ pc = "done"
    /\ responses =
         << [status |-> 400,
             body |-> ErrorBody(IF tool # "earnings_summary"
                                THEN MSG_UNSUPPORTED_TOOL ELSE MSG_NO_FILE)] >>
    /\ pdfParseCalls = 0 /\ utf8Decodes = 0 /\ modelCalls = 0
    /\ buffer = <<>> /\ text = <<>> /\ path = "none" /\ contents = <<>>

C10_Witness ==
  /\ pc = "done" /\ formOk
  /\ tool = "Earnings_Summary" /\ file.kind = "null"
  /\ responses = << [status |-> 400, body |-> ErrorBody(MSG_UNSUPPORTED_TOOL)] >>

(***************************************************************************)
(* C11: every failure has the status class of its kind: a wrong or missing  *)
(* tool, a missing file and an upload over the size cap get a status in     *)
(* 400..499; a missing credential, a failed model call, an unparseable      *)
(* model text and any unexpected failure get a status in 500..599; no       *)
(* failure gets status 200.                                                 *)
(***************************************************************************)
ClientInputMessages == {MSG_UNSUPPORTED_TOOL, MSG_NO_FILE, MSG_TOO_LARGE}

ServerSideMessages ==
  {MSG_NO_KEY, MSG_NO_TEXT, MSG_SYNTAX, MSG_FORM, MSG_UNEXPECTED, "fetch failed"}

RequestFailed ==
  \/ ~Validated
  \/ Oversize
  \/ path # "none" /\ apiKey \in {UNDEFINED, ""}
  \/ ModelFailed

C11_StatusClassByKind ==
  \A i \in DOMAIN responses :
    LET r == responses[i] IN
      /\ RequestFailed => (r.status # 200 /\ IsErrorResponse(r))
      /\ IsErrorResponse(r) =>
           /\ r.body.fields["error"] \in ClientInputMessages =>
                r.status \in 400..499
           /\ r.body.fields["error"] \in ServerSideMessages =>
                r.status \in 500..599

(***************************************************************************)
(* C12: when the PDF parser throws or cannot be loaded the request goes on  *)
(* with the empty text and takes the binary branch; no response is returned *)
(* for the parser's failure, and no other failure is followed by a 200      *)
(* response.                                                                *)
(***************************************************************************)
C12_ParseFailureDegrades ==
  /\ pdfParseError =>
       /\ Validated /\ ~Oversize /\ (PdfByType \/ PdfByName)
       /\ pdfParseCalls = 1
       /\ text = <<>>
       /\ buffer = file.bytes
       /\ pc \in {"route", "awaitModel", "done"}
       /\ pc = "route" => responses = <<>>
       /\ path # "none" => path = "binary"
       /\ pc = "awaitModel" => (modelCalls = 1 /\ Len(contents) = 2)
       /\ pc = "done" =>
            /\ path = "binary"
            /\ \/ apiKey \in {UNDEFINED, ""} /\ responses[1].body = ErrorBody(MSG_NO_KEY)
               \/ apiKey \notin {UNDEFINED, ""} /\ outcome.kind # "none"
  /\ \A i \in DOMAIN responses :
       responses[i].status = 200 =>
         /\ Validated /\ ~Oversize /\ apiKey \notin {UNDEFINED, ""}
         /\ outcome.kind = "resolves" /\ outcome.text.raw = "json"

C12_Witness ==
  /\ pdfParseError /\ pc = "done"
  /\ path = "binary"
  /\ Len(responses) = 1 /\ responses[1].status = 200
  /\ Base64Decode(contents[2].part.inlineData.data) = file.bytes

(***************************************************************************)
(* C13 as stated: on the binary branch the attachment carries the upload's  *)
(* declared media type and its bytes.                                       *)
(***************************************************************************)
C13_AttachmentCarriesDeclaredType ==
  (path = "binary" /\ modelCalls = 1) =>
    /\ contents[2].part.inlineData.mimeType = file.type
    /\ Base64Decode(contents[2].part.inlineData.data) = file.bytes

(***************************************************************************)
(* C13 as amended: on the binary branch the attachment carries the media    *)
(* type application/pdf and the upload's bytes, whatever media type the     *)
(* upload declared; it is the declared type exactly when the upload         *)
(* declared application/pdf.                                                *)
(***************************************************************************)
C13_AttachmentIsTypedPdf ==
  (path = "binary" /\ modelCalls = 1) =>
    /\ Len(contents) = 2
    /\ contents[2].part.inlineData.mimeType = "application/pdf"
    /\ (contents[2].part.inlineData.mimeType = file.type) <=> PdfByType
    /\ Base64Decode(contents[2].part.inlineData.data) = file.bytes

C13_Witness ==
  /\ pc = "awaitModel" /\ path = "binary"
  /\ PdfByName /\ file.type = "text/plain"
  /\ file.bytes = << <<195, 2>>, <<65, 1>> >>
  /\ contents[2].part.inlineData.mimeType = "application/pdf"

(***************************************************************************)
(* C14: on the page at most one /api/analyze request is in progress at any  *)
(* time, and while one is in progress (sent, its response not yet handled)  *)
(* the state is submitting, whatever the order of Submit, file selection,   *)
(* Reset and the arrival of responses.                                      *)
(***************************************************************************)
InFlight == {r \in 1..MaxInFlight : requests[r].stage # "free"}

C14_SingleRequestInFlight ==
  /\ Cardinality(InFlight) <= 1
  /\ InFlight # {} => apiState.status = "submitting"

(***************************************************************************)
(* C15: a Submit with no file selected, or with a file of more than         *)
(* 4 * 1024 * 1024 bytes, sets the error state and sends nothing; any other *)
(* Submit sends one request and sets submitting; when the fetch of a        *)
(* request was rejected or the body of its response was read, the request   *)
(* is eventually handled, which sets success if the response was ok and     *)
(* its body parsed as JSON, and error in every other case.                  *)
(***************************************************************************)
LimitBytes == 4 * 1024 * 1024

C15_SubmitEndsInSuccessOrError ==
  /\ [][ (event' = "submit" /\ (~pageFile.selected \/ pageFile.size > LimitBytes))
           => (apiState'.status = "error" /\ requests' = requests) ]_vars
  /\ [][ (event' = "submit" /\ pageFile.selected /\ pageFile.size <= LimitBytes)
           => /\ apiState'.status = "submitting"
              /\ \E r \in 1..MaxInFlight :
                   /\ requests[r].stage = "free"
                   /\ requests'[r].stage = "pending"
                   /\ \A q \in 1..MaxInFlight \ {r} : requests'[q] = requests[q] ]_vars
  /\ [][ \A r \in 1..MaxInFlight :
           (requests[r].stage = "read" /\ requests'[r].stage = "free")
             => apiState'.status =
                  IF requests[r].ok /\ requests[r].body = "json"
                  THEN "success" ELSE "error" ]_vars
  /\ [][ \A r \in 1..MaxInFlight :
           (requests[r].stage = "rejected" /\ requests'[r].stage = "free")
             => apiState'.status = "error" ]_vars
  /\ \A r \in 1..MaxInFlight :
       (requests[r].stage \in {"rejected", "read"})
         ~> (requests[r].stage = "free" /\ apiState.status \in {"success", "error"})

C15_Witness ==
  /\ event = "response"
  /\ apiState = ApiSuccess
  /\ pageFile.selected /\ pageFile.size = LimitBytes
  /\ InFlight = {}

====
